---- MODULE Spec2Model ----
(***************************************************************************)
(* Entity resolution of the call-analysis backend.                         *)
(*                                                                         *)
(* Modelled from backend/services/entity_resolution_service.py (the        *)
(* EntityResolutionService) and backend/tasks/analysis.py (the Celery      *)
(* task resolve_entities that runs it once per call and retries it, and    *)
(* the task analyze_call that stores a call's analysis and dispatches      *)
(* resolve_entities).                                                      *)
(*                                                                         *)
(* The store is the MongoDB collection db.entities: a sequence of          *)
(* documents in insertion order (the order find and find_one return).      *)
(* Every pymongo call (find_one, find, update_one, insert_one) is one      *)
(* atomic step of the store; the Python code between two calls runs on     *)
(* job-local data and is folded into the step of the call before it.       *)
(* Strings are sequences of one-character strings, so that strip, title,   *)
(* isupper, lower and the similarity ratio are computed, not assumed.      *)
(***************************************************************************)
EXTENDS Integers, Sequences, FiniteSets, TLC

VARIABLES
    threshold,  \* self.similarity_threshold, in hundredths of a point
    calls,      \* call_id -> analysis.entities of the call document
    entities,   \* db.entities, in insertion order
    pc,         \* call_id -> the store operation its job performs next
    idx,        \* call_id -> index of the mention being resolved
    retries,    \* call_id -> self.request.retries of the running attempt
    countdown,  \* call_id -> countdown of the last self.retry (0: none yet)
    loc,        \* call_id -> locals of _find_or_create_canonical_entity
    mappings,   \* call_id -> entity_mappings of the running attempt
    result,     \* call_id -> what the task returned / stored
    applied,    \* call_id -> resolve_entities_for_call has returned once
    analysis,   \* call_id -> the analyze_call task of the call and the
                \* status field of its call document
    now,        \* datetime.utcnow(): the clock all workers read, advanced
                \* by every write of a resolution job to db.entities
    stats,      \* the running get_entity_stats call and what it has read
    norm        \* a raw name and what _normalize_entity_name returned for
                \* it and for that result

vars == <<threshold, calls, entities, pc, idx, retries, countdown, loc,
          mappings, result, applied, analysis, now, stats, norm>>

----------------------------------------------------------------------------
(* Bounds of the model *)

\* extracted entities of all calls together
MaxMentions == 3

\* canonical entities in the store that get_entity_stats reads
MaxStored == 11

\* characters of a raw name given to _normalize_entity_name
MaxNameLen == 6

(* Program constants *)

\* @celery_app.task(..., max_retries=3)
max_retries == 3

\* countdown=60 * (2 ** self.request.retries)
backoff_base == 60

\* len(normalized) <= 5
acronym_max_len == 5

\* .limit(10) of most_mentioned
top_limit == 10

\* similarity_threshold: float = 85.0, in hundredths of a point
default_threshold == 8500

\* 'similarity_score': 100.0, in hundredths of a point
full_score == 10000

----------------------------------------------------------------------------
(* Characters and strings *)

\* the ASCII letters, in code point order
LowerLetters ==
    <<"a", "b", "c", "d", "e", "f", "g", "h", "i", "j", "k", "l", "m",
      "n", "o", "p", "q", "r", "s", "t", "u", "v", "w", "x", "y", "z">>

UpperLetters ==
    <<"A", "B", "C", "D", "E", "F", "G", "H", "I", "J", "K", "L", "M",
      "N", "O", "P", "Q", "R", "S", "T", "U", "V", "W", "X", "Y", "Z">>

LowerChars == { LowerLetters[i] : i \in 1..Len(LowerLetters) }
UpperChars == { UpperLetters[i] : i \in 1..Len(UpperLetters) }
Space == " "

\* two characters outside ASCII, named by their code points: LATIN CAPITAL
\* LETTER I WITH DOT ABOVE, an upper-case letter whose lower case is the two
\* code points "i" and COMBINING DOT ABOVE, and that combining mark, which is
\* not a cased character
DottedCapitalI == "U+0130"
CombiningDotAbove == "U+0307"

\* position of a letter in its alphabet
LetterIndex(ch, letters) == CHOOSE i \in 1..Len(letters) : letters[i] = ch

\* the title case of one character (U+0130 and U+0307 are their own)
UpperChar(ch) ==
    IF ch \in LowerChars THEN UpperLetters[LetterIndex(ch, LowerLetters)] ELSE ch

\* str.lower on one character
LowerChar(ch) ==
    IF ch \in UpperChars THEN LowerLetters[LetterIndex(ch, UpperLetters)] ELSE ch

\* code point order of the characters, as Python compares strings
CodePoint(ch) ==
    IF ch \in UpperChars THEN 64 + LetterIndex(ch, UpperLetters)
    ELSE IF ch \in LowerChars THEN 96 + LetterIndex(ch, LowerLetters)
    ELSE IF ch = Space THEN 32
    ELSE IF ch = DottedCapitalI THEN 304
    ELSE IF ch = CombiningDotAbove THEN 775
    ELSE 0

IsCased(ch) == ch \in LowerChars \cup UpperChars \cup {DottedCapitalI}

\* the full lower case of one character, a string of one or two code points
LowerFull(ch) ==
    IF ch = DottedCapitalI THEN <<"i", CombiningDotAbove>> ELSE <<LowerChar(ch)>>

\* the concatenation of a sequence of strings
RECURSIVE Flatten(_)
Flatten(ss) ==
    IF ss = <<>> THEN <<>> ELSE Head(ss) \o Flatten(Tail(ss))

\* str.lower
LowerStr(s) == Flatten([i \in 1..Len(s) |-> LowerFull(s[i])])

\* str.isupper: no lower-case character and at least one upper-case one
IsUpperStr(s) ==
    /\ \A i \in 1..Len(s) : s[i] \notin LowerChars
    /\ \E i \in 1..Len(s) : s[i] \in UpperChars \cup {DottedCapitalI}

\* str.title: each character of the input is title-cased after an uncased
\* character (or at the start) and lower-cased, in full, after a cased one
TitleStr(s) ==
    Flatten([i \in 1..Len(s) |->
        IF i > 1 /\ IsCased(s[i - 1]) THEN LowerFull(s[i]) ELSE <<UpperChar(s[i])>>])

RECURSIVE LStrip(_)
LStrip(s) ==
    IF s # <<>> /\ Head(s) = Space THEN LStrip(Tail(s)) ELSE s

RECURSIVE RStrip(_)
RStrip(s) ==
    IF s # <<>> /\ s[Len(s)] = Space THEN RStrip(SubSeq(s, 1, Len(s) - 1)) ELSE s

\* str.strip
Strip(s) == RStrip(LStrip(s))

\* a normalization with no acronym rule
NormalizeEntityNameTitleOnly(name) == TitleStr(Strip(name))

\* EntityResolutionService._normalize_entity_name
NormalizeEntityName(name) ==
    LET normalized == Strip(name) IN
    IF Len(normalized) <= acronym_max_len /\ IsUpperStr(normalized)
    THEN normalized
    ELSE TitleStr(normalized)

----------------------------------------------------------------------------
(* Similarity scorer: rapidfuzz.fuzz.token_sort_ratio, as called by         *)
(* process.extractOne with no processor (strings compared as given)         *)

\* s < t in Python's string order
RECURSIVE StrLess(_, _)
StrLess(s, t) ==
    IF t = <<>> THEN FALSE
    ELSE IF s = <<>> THEN TRUE
    ELSE IF Head(s) # Head(t) THEN CodePoint(Head(s)) < CodePoint(Head(t))
    ELSE StrLess(Tail(s), Tail(t))

\* str.split(): the maximal runs of non-space characters, in order
RECURSIVE SplitFrom(_, _, _)
SplitFrom(s, cur, acc) ==
    IF s = <<>> THEN (IF cur = <<>> THEN acc ELSE Append(acc, cur))
    ELSE IF Head(s) = Space
         THEN SplitFrom(Tail(s), <<>>, IF cur = <<>> THEN acc ELSE Append(acc, cur))
         ELSE SplitFrom(Tail(s), Append(cur, Head(s)), acc)

Split(s) == SplitFrom(s, <<>>, <<>>)

\* one token inserted into a sorted list of tokens
RECURSIVE InsertSorted(_, _)
InsertSorted(tok, toks) ==
    IF toks = <<>> THEN <<tok>>
    ELSE IF StrLess(Head(toks), tok)
         THEN <<Head(toks)>> \o InsertSorted(tok, Tail(toks))
         ELSE <<tok>> \o toks

\* sorted(tokens)
RECURSIVE SortTokens(_)
SortTokens(toks) ==
    IF toks = <<>> THEN <<>> ELSE InsertSorted(Head(toks), SortTokens(Tail(toks)))

\* " ".join(tokens)
RECURSIVE Join(_)
Join(toks) ==
    IF toks = <<>> THEN <<>>
    ELSE IF Len(toks) = 1 THEN Head(toks)
    ELSE Head(toks) \o <<Space>> \o Join(Tail(toks))

TokenSort(s) == Join(SortTokens(Split(s)))

\* length of the longest common subsequence
RECURSIVE LCS(_, _)
LCS(s, t) ==
    IF s = <<>> \/ t = <<>> THEN 0
    ELSE IF Head(s) = Head(t) THEN 1 + LCS(Tail(s), Tail(t))
    ELSE LET x == LCS(Tail(s), t)
             y == LCS(s, Tail(t))
         IN IF x >= y THEN x ELSE y

\* fuzz.ratio: the normalized Indel similarity, 100 * 2*lcs / (len1 + len2),
\* in hundredths of a point (10000 for two empty strings)
Ratio(s, t) ==
    IF Len(s) + Len(t) = 0 THEN full_score
    ELSE (2 * full_score * LCS(s, t)) \div (Len(s) + Len(t))

\* fuzz.token_sort_ratio
TokenSortRatio(s, t) == Ratio(TokenSort(s), TokenSort(t))

----------------------------------------------------------------------------
(* Inputs *)

\* the calls whose resolve_entities jobs run
Calls == {"c1", "c2"}

\* EntityType values the extracted entities carry
EntityTypes == {"person", "company"}

\* self.similarity_threshold values the service is constructed with: the
\* default 85.0, 80.0 (the score of "Ab" against "Abc" and against "Abb",
\* which score 66.66 against each other) and 0.0
Thresholds == {0, 8000, default_threshold}

Mention(n, t, m) == [name |-> n, type |-> t, mentions |-> m]

\* the extracted entities {name, type, mentions} a call may carry
MentionPool ==
    { Mention(<<"a", "b">>, "person", 1),
      Mention(<<"A", "b", " ">>, "person", 2),
      Mention(<<"a", "b", "c">>, "person", 1),
      Mention(<<"a", "b", "b">>, "person", 2),
      Mention(<<"A", "b">>, "company", 1),
      Mention(<<" ">>, "person", 1) }

MentionLists == UNION { [1..n -> MentionPool] : n \in 0..MaxMentions }

\* the extracted entities of the call of the worked example: "John Smith"
\* (person, 3), "john smith" (person, 1), "Acme Corp" (company, 2)
ExampleMentions ==
    << Mention(<<"J", "o", "h", "n", " ", "S", "m", "i", "t", "h">>, "person", 3),
       Mention(<<"j", "o", "h", "n", " ", "s", "m", "i", "t", "h">>, "person", 1),
       Mention(<<"A", "c", "m", "e", " ", "C", "o", "r", "p">>, "company", 2) >>

ExamplePool == { ExampleMentions[i] : i \in 1..Len(ExampleMentions) }

\* the lists of a call that also draws from the worked example
ExampleLists ==
    UNION { [1..n -> MentionPool \cup ExamplePool] : n \in 0..MaxMentions }

\* names of which each is close to the next one only: "abcd" is close to
\* "abc" (85.71) and not to "ab" (66.67), "abc" scores 80 against "ab"
AliasPool ==
    { Mention(<<"a", "b">>, "person", 1),
      Mention(<<"a", "b", "c">>, "person", 1),
      Mention(<<"a", "b", "c", "d">>, "person", 1) }

\* the lists of a call that draws from these names
AliasLists ==
    UNION { [1..n -> AliasPool] : n \in 0..MaxMentions }

\* the strings the service compares: the stripped raw names, which are also
\* the aliases it stores, and their normalized forms
NameUniverse ==
    { Strip(m.name) : m \in MentionPool \cup ExamplePool \cup AliasPool } \cup
    { NormalizeEntityName(m.name) : m \in MentionPool \cup ExamplePool \cup AliasPool }

\* _normalize_entity_name and token_sort_ratio tabulated over NameUniverse
\* (the values are those of the operators; the tables are computed once)
Normalized == [s \in NameUniverse |-> NormalizeEntityName(s)]

Similarity == [s \in NameUniverse, t \in NameUniverse |-> TokenSortRatio(s, t)]

----------------------------------------------------------------------------
(* The canonical-entity store: db.entities *)

NoEntity ==
    [entity_id |-> 0, canonical_name |-> <<>>, entity_type |-> "",
     aliases |-> <<>>, email |-> "None", phone |-> "None",
     company |-> "None", title |-> "None", first_seen |-> 0, last_seen |-> 0,
     total_mentions |-> 0, call_count |-> 0, occurrences |-> <<>>]

Occurrence(call_id, raw_name, entity_type, mentions) ==
    [call_id |-> call_id, raw_name |-> raw_name,
     entity_type |-> entity_type, mentions |-> mentions]

\* uuid.uuid4(): an identifier no stored entity has
FreshId(store) == Len(store) + 1

\* entities_collection.find_one({'canonical_name': .., 'entity_type': ..}):
\* the first matching document in the collection's order, or None
FindOne(store, canonical_name, entity_type) ==
    LET hits == { i \in 1..Len(store) :
                    /\ store[i].canonical_name = canonical_name
                    /\ store[i].entity_type = entity_type }
    IN IF hits = {} THEN NoEntity
       ELSE store[CHOOSE i \in hits : \A k \in hits : i <= k]

\* as FindByType, but with find({}): the filter on entity_type left out
FindAllTypes(store, entity_type) == store

\* entities_collection.find({'entity_type': entity_type})
FindByType(store, entity_type) ==
    SelectSeq(store, LAMBDA e : e.entity_type = entity_type)

\* entities_collection.insert_one(entity)
InsertOne(store, entity) == Append(store, entity)

\* as NewEntity, but with 'canonical_name': raw_name
NewEntityRawName(entity_id, entity_name, entity_type, call_id, raw_name, mentions, at) ==
    [entity_id |-> entity_id,
     canonical_name |-> raw_name,
     entity_type |-> entity_type,
     aliases |-> IF raw_name # entity_name THEN <<raw_name>> ELSE <<>>,
     email |-> "None",
     phone |-> "None",
     company |-> "None",
     title |-> "None",
     first_seen |-> at,
     last_seen |-> at,
     total_mentions |-> mentions,
     call_count |-> 1,
     occurrences |-> <<Occurrence(call_id, raw_name, entity_type, mentions)>>]

\* as NewEntity, but with 'aliases': [raw_name]
NewEntityAliasAlways(entity_id, entity_name, entity_type, call_id, raw_name, mentions, at) ==
    [entity_id |-> entity_id,
     canonical_name |-> entity_name,
     entity_type |-> entity_type,
     aliases |-> <<raw_name>>,
     email |-> "None",
     phone |-> "None",
     company |-> "None",
     title |-> "None",
     first_seen |-> at,
     last_seen |-> at,
     total_mentions |-> mentions,
     call_count |-> 1,
     occurrences |-> <<Occurrence(call_id, raw_name, entity_type, mentions)>>]

\* the document _create_canonical_entity builds
NewEntity(entity_id, entity_name, entity_type, call_id, raw_name, mentions, at) ==
    [entity_id |-> entity_id,
     canonical_name |-> entity_name,
     entity_type |-> entity_type,
     aliases |-> IF raw_name # entity_name THEN <<raw_name>> ELSE <<>>,
     email |-> "None",
     phone |-> "None",
     company |-> "None",
     title |-> "None",
     first_seen |-> at,
     last_seen |-> at,
     total_mentions |-> mentions,
     call_count |-> 1,
     occurrences |-> <<Occurrence(call_id, raw_name, entity_type, mentions)>>]

\* as AddEntityOccurrence, but with '$inc': {'total_mentions': 1}
AddEntityOccurrenceIncOne(store, entity_id, call_id, raw_name, entity_type, mentions, at) ==
    LET hits == { i \in 1..Len(store) : store[i].entity_id = entity_id } IN
    IF hits = {} THEN store
    ELSE LET i == CHOOSE h \in hits : \A k \in hits : h <= k IN
         [store EXCEPT
            ![i].occurrences =
                Append(@, Occurrence(call_id, raw_name, entity_type, mentions)),
            ![i].last_seen = at,
            ![i].total_mentions = @ + 1,
            ![i].call_count = @ + 1]

\* as AddEntityOccurrence, but with 'email': None, 'phone': None,
\* 'company': None, 'title': None added to '$set'
AddEntityOccurrenceResetsContact(store, entity_id, call_id, raw_name, entity_type, mentions, at) ==
    LET hits == { i \in 1..Len(store) : store[i].entity_id = entity_id } IN
    IF hits = {} THEN store
    ELSE LET i == CHOOSE h \in hits : \A k \in hits : h <= k IN
         [store EXCEPT
            ![i].occurrences =
                Append(@, Occurrence(call_id, raw_name, entity_type, mentions)),
            ![i].email = "None",
            ![i].phone = "None",
            ![i].company = "None",
            ![i].title = "None",
            ![i].last_seen = at,
            ![i].total_mentions = @ + mentions,
            ![i].call_count = @ + 1]

\* as AddEntityOccurrence, but with '$set': {'first_seen': ..} in place of
\* 'last_seen'
AddEntityOccurrenceSetsFirstSeen(store, entity_id, call_id, raw_name, entity_type, mentions, at) ==
    LET hits == { i \in 1..Len(store) : store[i].entity_id = entity_id } IN
    IF hits = {} THEN store
    ELSE LET i == CHOOSE h \in hits : \A k \in hits : h <= k IN
         [store EXCEPT
            ![i].occurrences =
                Append(@, Occurrence(call_id, raw_name, entity_type, mentions)),
            ![i].first_seen = at,
            ![i].total_mentions = @ + mentions,
            ![i].call_count = @ + 1]

\* as AddEntityOccurrence, but with '$push': {'occurrences': {'$each':
\* [occurrence], '$position': 0}}
AddEntityOccurrencePrepend(store, entity_id, call_id, raw_name, entity_type, mentions, at) ==
    LET hits == { i \in 1..Len(store) : store[i].entity_id = entity_id } IN
    IF hits = {} THEN store
    ELSE LET i == CHOOSE h \in hits : \A k \in hits : h <= k IN
         [store EXCEPT
            ![i].occurrences =
                <<Occurrence(call_id, raw_name, entity_type, mentions)>> \o @,
            ![i].last_seen = at,
            ![i].total_mentions = @ + mentions,
            ![i].call_count = @ + 1]

\* as AddEntityOccurrence, but with update_many({'entity_type': entity_type},
\* ..): every entity of the type receives the occurrence
AddEntityOccurrenceUpdateMany(store, entity_id, call_id, raw_name, entity_type, mentions, at) ==
    [i \in 1..Len(store) |->
        IF store[i].entity_type = entity_type
        THEN [store[i] EXCEPT
                !.occurrences =
                    Append(@, Occurrence(call_id, raw_name, entity_type, mentions)),
                !.last_seen = at,
                !.total_mentions = @ + mentions,
                !.call_count = @ + 1]
        ELSE store[i]]

\* update_one({'entity_id': entity_id}, {'$push': {'occurrences': ..},
\* '$set': {'last_seen': ..}, '$inc': {'total_mentions': mentions,
\* 'call_count': 1}}): one atomic
\* update of the first document with that entity_id, applied to the
\* document as stored at the time of the update
AddEntityOccurrence(store, entity_id, call_id, raw_name, entity_type, mentions, at) ==
    LET hits == { i \in 1..Len(store) : store[i].entity_id = entity_id } IN
    IF hits = {} THEN store
    ELSE LET i == CHOOSE h \in hits : \A k \in hits : h <= k IN
         [store EXCEPT
            ![i].occurrences =
                Append(@, Occurrence(call_id, raw_name, entity_type, mentions)),
            ![i].last_seen = at,
            ![i].total_mentions = @ + mentions,
            ![i].call_count = @ + 1]

\* update_one({'entity_id': entity_id}, {'$addToSet': {'aliases': name}}):
\* appends name unless the stored array already holds that exact string
AddToSetAlias(store, entity_id, name) ==
    LET hits == { i \in 1..Len(store) : store[i].entity_id = entity_id } IN
    IF hits = {} THEN store
    ELSE LET i == CHOOSE h \in hits : \A k \in hits : h <= k IN
         IF \E a \in 1..Len(store[i].aliases) : store[i].aliases[a] = name
         THEN store
         ELSE [store EXCEPT ![i].aliases = Append(@, name)]

----------------------------------------------------------------------------
(* Fuzzy matching: EntityResolutionService._fuzzy_match_entity *)

\* an entity compared under its canonical name only
EntityChoicesCanonicalOnly(e) == <<e.canonical_name>>

\* the names one entity contributes to choices: canonical name, then the
\* normalized aliases
EntityChoices(e) ==
    <<e.canonical_name>> \o
    [a \in 1..Len(e.aliases) |-> Normalized[e.aliases[a]]]

\* choices, in the order the loop over existing_entities appends them
RECURSIVE Choices(_)
Choices(ents) ==
    IF ents = <<>> THEN <<>>
    ELSE EntityChoices(Head(ents)) \o Choices(Tail(ents))

\* entity_map[name]: the dict keeps the last entity assigned to a name
EntityMap(ents, name) ==
    LET owners == { i \in 1..Len(ents) :
                      \E c \in 1..Len(EntityChoices(ents[i])) :
                          EntityChoices(ents[i])[c] = name }
    IN ents[CHOOSE i \in owners : \A k \in owners : k <= i]

\* process.extractOne(query, choices, scorer=fuzz.token_sort_ratio): the
\* index of the first choice of the highest score
ExtractOne(query, choices) ==
    CHOOSE i \in 1..Len(choices) :
        /\ \A k \in 1..Len(choices) :
              Similarity[query, choices[k]] <= Similarity[query, choices[i]]
        /\ \A k \in 1..(i - 1) :
              Similarity[query, choices[k]] < Similarity[query, choices[i]]

\* as MeetsThreshold, but with score > self.similarity_threshold
ExceedsThreshold(score, thr) == score > thr

\* score >= self.similarity_threshold
MeetsThreshold(score, thr) == score >= thr

NoMatch == [found |-> FALSE, entity |-> NoEntity, score |-> 0]

FuzzyMatchEntity(store, entity_name, entity_type, thr) ==
    LET existing_entities == FindByType(store, entity_type) IN
    IF existing_entities = <<>> THEN NoMatch
    ELSE LET choices == Choices(existing_entities)
             best == ExtractOne(entity_name, choices)
             score == Similarity[entity_name, choices[best]]
         IN IF MeetsThreshold(score, thr)
            THEN [found |-> TRUE,
                  entity |-> EntityMap(existing_entities, choices[best]),
                  score |-> score]
            ELSE NoMatch

----------------------------------------------------------------------------
(* The resolve_entities task and resolve_entities_for_call *)

NoLocals ==
    [matched |-> NoEntity, score |-> 0, method |-> "none",
     new_entities_created |-> 0, resolved_count |-> 0, since |-> 0]

\* the values datetime.utcnow() may return to a job between the end of its
\* last store operation and the write it is about to make
UtcNow(j) == loc[j].since..now

NoResult ==
    [status |-> "none", raw_entities_count |-> 0, resolved_entities_count |-> 0,
     new_entities_created |-> 0, entity_mappings |-> <<>>]

\* entity.get('name', '').strip()
EntityName(j, i) == Strip(calls[j][i].name)

\* self._normalize_entity_name(entity_name) of the mention
NormalizedName(j, i) == Normalized[EntityName(j, i)]

\* as NextMention, but without `if not entity_name: continue`
NextMentionNoSkip(j, i) == i

\* the first mention at index i or later that `if not entity_name: continue`
\* does not skip; Len + 1 when the loop is over
RECURSIVE NextMention(_, _)
NextMention(j, i) ==
    IF i > Len(calls[j]) THEN i
    ELSE IF EntityName(j, i) = <<>> THEN NextMention(j, i + 1)
    ELSE i

\* 2 ** n
RECURSIVE Pow2(_)
Pow2(n) == IF n = 0 THEN 1 ELSE 2 * Pow2(n - 1)

\* the pymongo calls a job may be about to make
StoreOps ==
    {"start", "find_exact", "find_candidates", "append", "add_alias",
     "create", "save"}

\* as MappingRow, but with 'canonical_name': the mention's normalized name
MappingRowNormalizedName(j, entity, score, method) ==
    [raw_name |-> EntityName(j, idx[j]),
     canonical_id |-> entity.entity_id,
     canonical_name |-> NormalizedName(j, idx[j]),
     entity_type |-> calls[j][idx[j]].type,
     similarity_score |-> score,
     match_method |-> method]

MappingRow(j, entity, score, method) ==
    [raw_name |-> EntityName(j, idx[j]),
     canonical_id |-> entity.entity_id,
     canonical_name |-> entity.canonical_name,
     entity_type |-> calls[j][idx[j]].type,
     similarity_score |-> score,
     match_method |-> method]

\* the rest of one loop iteration after _find_or_create_canonical_entity
\* returned (entity, match_info): count, append the mapping row, and go on
\* to the next mention or return the result
Resolved(j, entity, score, method) ==
    LET k == NextMention(j, idx[j] + 1) IN
    /\ mappings' = [mappings EXCEPT ![j] = Append(@, MappingRow(j, entity, score, method))]
    /\ loc' = [loc EXCEPT ![j] =
                  [matched |-> NoEntity, score |-> 0, method |-> "none",
                   new_entities_created |->
                       IF method = "new" THEN @.new_entities_created + 1
                       ELSE @.new_entities_created,
                   resolved_count |->
                       IF method = "new" THEN @.resolved_count
                       ELSE @.resolved_count + 1,
                   since |-> now + 1]]
    /\ idx' = [idx EXCEPT ![j] = k]
    /\ pc' = [pc EXCEPT ![j] = IF k > Len(calls[j]) THEN "save" ELSE "find_exact"]
    /\ applied' = [applied EXCEPT ![j] = @ \/ k > Len(calls[j])]

\* calls_collection.find_one({'call_id': call_id}) and the start of the
\* loop over extracted_entities
LoadCall(j) ==
    /\ pc[j] = "start"
    /\ IF calls[j] = <<>>
       THEN /\ pc' = [pc EXCEPT ![j] = "done"]
            /\ result' = [result EXCEPT ![j] = [NoResult EXCEPT !.status = "success"]]
            /\ UNCHANGED <<idx, applied>>
       ELSE LET k == NextMention(j, 1) IN
            /\ idx' = [idx EXCEPT ![j] = k]
            /\ pc' = [pc EXCEPT ![j] = IF k > Len(calls[j]) THEN "save" ELSE "find_exact"]
            /\ applied' = [applied EXCEPT ![j] = @ \/ k > Len(calls[j])]
            /\ UNCHANGED result
    /\ UNCHANGED <<norm, analysis, stats, now, threshold, calls, entities, retries, countdown,
                   loc, mappings>>

\* the exact-match find_one of _find_or_create_canonical_entity
FindExact(j) ==
    /\ pc[j] = "find_exact"
    /\ LET m == calls[j][idx[j]]
           normalized_name == NormalizedName(j, idx[j])
           existing_entity == FindOne(entities, normalized_name, m.type)
       IN IF existing_entity # NoEntity
          THEN /\ loc' = [loc EXCEPT ![j].matched = existing_entity,
                                     ![j].score = full_score,
                                     ![j].method = "exact",
                                     ![j].since = now]
               /\ pc' = [pc EXCEPT ![j] = "append"]
          ELSE /\ pc' = [pc EXCEPT ![j] = "find_candidates"]
               /\ loc' = [loc EXCEPT ![j].since = now]
    /\ UNCHANGED <<norm, analysis, stats, now, threshold, calls, entities, idx, retries,
                   countdown, mappings, result, applied>>

\* the find of _fuzzy_match_entity and the match computed from its result
FindCandidates(j) ==
    /\ pc[j] = "find_candidates"
    /\ LET m == calls[j][idx[j]]
           normalized_name == NormalizedName(j, idx[j])
           fuzzy_match == FuzzyMatchEntity(entities, normalized_name, m.type, threshold)
       IN IF fuzzy_match.found
          THEN /\ loc' = [loc EXCEPT ![j].matched = fuzzy_match.entity,
                                     ![j].score = fuzzy_match.score,
                                     ![j].method = "fuzzy",
                                     ![j].since = now]
               /\ pc' = [pc EXCEPT ![j] = "append"]
          ELSE /\ pc' = [pc EXCEPT ![j] = "create"]
               /\ loc' = [loc EXCEPT ![j].since = now]
    /\ UNCHANGED <<norm, analysis, stats, now, threshold, calls, entities, idx, retries,
                   countdown, mappings, result, applied>>

\* entity_name.lower() not in [a.lower() for a in matched_entity['aliases']]
AliasMissing(entity_name, matched_entity) ==
    \A a \in 1..Len(matched_entity.aliases) :
        LowerStr(matched_entity.aliases[a]) # LowerStr(entity_name)

\* as AddOccurrence, but as a read-modify-write: the occurrences and the
\* counters are written back from the document the job read when it matched
AddOccurrenceReadModifyWrite(j) ==
    /\ pc[j] = "append"
    /\ \E at \in UtcNow(j) :
       LET m == calls[j][idx[j]]
           entity_name == EntityName(j, idx[j])
           snapshot == loc[j].matched
       IN /\ entities' =
                [i \in 1..Len(entities) |->
                    IF entities[i].entity_id = snapshot.entity_id
                    THEN [entities[i] EXCEPT
                            !.occurrences =
                                Append(snapshot.occurrences,
                                       Occurrence(j, entity_name, m.type, m.mentions)),
                            !.last_seen = at,
                            !.total_mentions = snapshot.total_mentions + m.mentions,
                            !.call_count = snapshot.call_count + 1]
                    ELSE entities[i]]
          /\ IF loc[j].method = "fuzzy" /\ AliasMissing(entity_name, loc[j].matched)
             THEN /\ pc' = [pc EXCEPT ![j] = "add_alias"]
                  /\ UNCHANGED <<idx, loc, mappings, applied>>
             ELSE Resolved(j, loc[j].matched, loc[j].score, loc[j].method)
    /\ now' = now + 1
    /\ UNCHANGED <<norm, analysis, stats, threshold, calls, retries, countdown, result>>

\* _add_entity_occurrence on the entity matched exactly or fuzzily
AddOccurrence(j) ==
    /\ pc[j] = "append"
    /\ \E at \in UtcNow(j) :
       LET m == calls[j][idx[j]]
           entity_name == EntityName(j, idx[j])
       IN /\ entities' = AddEntityOccurrence(entities, loc[j].matched.entity_id,
                                             j, entity_name, m.type, m.mentions, at)
          /\ IF loc[j].method = "fuzzy" /\ AliasMissing(entity_name, loc[j].matched)
             THEN /\ pc' = [pc EXCEPT ![j] = "add_alias"]
                  /\ UNCHANGED <<idx, loc, mappings, applied>>
             ELSE Resolved(j, loc[j].matched, loc[j].score, loc[j].method)
    /\ now' = now + 1
    /\ UNCHANGED <<norm, analysis, stats, threshold, calls, retries, countdown, result>>

\* the $addToSet update of the fuzzy branch
AddAlias(j) ==
    /\ pc[j] = "add_alias"
    /\ entities' = AddToSetAlias(entities, loc[j].matched.entity_id, EntityName(j, idx[j]))
    /\ Resolved(j, loc[j].matched, loc[j].score, "fuzzy")
    /\ now' = now + 1
    /\ UNCHANGED <<norm, analysis, stats, threshold, calls, retries, countdown, result>>

\* _create_canonical_entity: no match, insert a new entity
CreateEntity(j) ==
    /\ pc[j] = "create"
    /\ \E at \in UtcNow(j) :
       LET m == calls[j][idx[j]]
           entity_name == EntityName(j, idx[j])
           new_entity == NewEntity(FreshId(entities), NormalizedName(j, idx[j]),
                                   m.type, j, entity_name, m.mentions, at)
       IN /\ entities' = InsertOne(entities, new_entity)
          /\ Resolved(j, new_entity, full_score, "new")
    /\ now' = now + 1
    /\ UNCHANGED <<norm, analysis, stats, threshold, calls, retries, countdown, result>>

\* as SaveResult, but with raw_entities_count=len(entity_mappings)
SaveResultCountsRows(j) ==
    /\ pc[j] = "save"
    /\ result' = [result EXCEPT ![j] =
                     [status |-> "success",
                      raw_entities_count |-> Len(mappings[j]),
                      resolved_entities_count |-> loc[j].resolved_count,
                      new_entities_created |-> loc[j].new_entities_created,
                      entity_mappings |-> mappings[j]]]
    /\ pc' = [pc EXCEPT ![j] = "done"]
    /\ UNCHANGED <<norm, analysis, stats, now, threshold, calls, entities, idx, retries,
                   countdown, loc, mappings, applied>>

\* calls_collection.update_one(.. {'entity_resolution': result ..}) and the
\* task's return {'status': 'success', ..}
SaveResult(j) ==
    /\ pc[j] = "save"
    /\ result' = [result EXCEPT ![j] =
                     [status |-> "success",
                      raw_entities_count |-> Len(calls[j]),
                      resolved_entities_count |-> loc[j].resolved_count,
                      new_entities_created |-> loc[j].new_entities_created,
                      entity_mappings |-> mappings[j]]]
    /\ pc' = [pc EXCEPT ![j] = "done"]
    /\ UNCHANGED <<norm, analysis, stats, now, threshold, calls, entities, idx, retries,
                   countdown, loc, mappings, applied>>

\* as Fault, but with self.request.retries <= self.max_retries
FaultOneRetryMore(j) ==
    /\ pc[j] \in StoreOps
    /\ IF retries[j] <= max_retries
       THEN /\ retries' = [retries EXCEPT ![j] = @ + 1]
            /\ countdown' = [countdown EXCEPT ![j] = backoff_base * Pow2(retries[j])]
            /\ pc' = [pc EXCEPT ![j] = "start"]
            /\ UNCHANGED result
       ELSE /\ pc' = [pc EXCEPT ![j] = "failed"]
            /\ result' = [result EXCEPT ![j] = [NoResult EXCEPT !.status = "error"]]
            /\ UNCHANGED <<retries, countdown>>
    /\ idx' = [idx EXCEPT ![j] = 0]
    /\ loc' = [loc EXCEPT ![j] = NoLocals]
    /\ mappings' = [mappings EXCEPT ![j] = <<>>]
    /\ UNCHANGED <<norm, analysis, stats, now, threshold, calls, entities, applied>>

\* the pending pymongo call raises: the task's except clause retries the
\* whole task with countdown 60 * 2 ** retries while retries < max_retries,
\* and returns {'status': 'error'} after that
Fault(j) ==
    /\ pc[j] \in StoreOps
    /\ IF retries[j] < max_retries
       THEN /\ retries' = [retries EXCEPT ![j] = @ + 1]
            /\ countdown' = [countdown EXCEPT ![j] = backoff_base * Pow2(retries[j])]
            /\ pc' = [pc EXCEPT ![j] = "start"]
            /\ UNCHANGED result
       ELSE /\ pc' = [pc EXCEPT ![j] = "failed"]
            /\ result' = [result EXCEPT ![j] = [NoResult EXCEPT !.status = "error"]]
            /\ UNCHANGED <<retries, countdown>>
    /\ idx' = [idx EXCEPT ![j] = 0]
    /\ loc' = [loc EXCEPT ![j] = NoLocals]
    /\ mappings' = [mappings EXCEPT ![j] = <<>>]
    /\ UNCHANGED <<norm, analysis, stats, now, threshold, calls, entities, applied>>

----------------------------------------------------------------------------
(* Enrichment of a canonical entity, made outside the resolution service   *)

\* the contact fields an enrichment writes
Enriched == [email |-> "email", phone |-> "phone", company |-> "company",
             title |-> "title"]

\* an update of the contact fields of one stored entity that has none yet
Enrich ==
    /\ \E i \in 1..Len(entities) :
          /\ entities[i].email = "None"
          /\ entities' = [entities EXCEPT ![i].email = Enriched.email,
                                          ![i].phone = Enriched.phone,
                                          ![i].company = Enriched.company,
                                          ![i].title = Enriched.title]
    /\ UNCHANGED <<norm, analysis, stats, now, threshold, calls, pc, idx, retries, countdown,
                   loc, mappings, result, applied>>

----------------------------------------------------------------------------
(* Statistics: EntityResolutionService.get_entity_stats                    *)

NoStats ==
    [pc |-> "idle", total_entities |-> 0, entities_by_type |-> <<>>,
     total_mentions |-> 0, most_mentioned_entities |-> <<>>]

\* one document inserted into a list sorted by total_mentions, the highest
\* first; MongoDB leaves the order of documents of equal total_mentions
\* open: ties_first puts the document before its equals, otherwise after
RECURSIVE InsertByMentions(_, _, _)
InsertByMentions(e, sorted, ties_first) ==
    IF sorted = <<>> THEN <<e>>
    ELSE IF \/ Head(sorted).total_mentions > e.total_mentions
            \/ Head(sorted).total_mentions = e.total_mentions /\ ~ties_first
         THEN <<Head(sorted)>> \o InsertByMentions(e, Tail(sorted), ties_first)
         ELSE <<e>> \o sorted

\* as SortByMentions, but with .sort('total_mentions', 1)
RECURSIVE SortByMentionsAscending(_, _)
SortByMentionsAscending(docs, ties_first) ==
    IF docs = <<>> THEN <<>>
    ELSE LET rest == SortByMentionsAscending(Tail(docs), ties_first)
             lower == SelectSeq(rest, LAMBDA d :
                         d.total_mentions < Head(docs).total_mentions)
             upper == SelectSeq(rest, LAMBDA d :
                         d.total_mentions >= Head(docs).total_mentions)
         IN lower \o <<Head(docs)>> \o upper

\* .sort('total_mentions', -1)
RECURSIVE SortByMentions(_, _)
SortByMentions(docs, ties_first) ==
    IF docs = <<>> THEN <<>>
    ELSE InsertByMentions(Head(docs), SortByMentions(Tail(docs), ties_first),
                          ties_first)

\* .limit(n)
Limit(docs, n) == SubSeq(docs, 1, IF Len(docs) < n THEN Len(docs) ELSE n)

\* the entry of most_mentioned_entities built from one document
StatsEntry(e) ==
    [name |-> e.canonical_name, type |-> e.entity_type,
     mentions |-> e.total_mentions, calls |-> e.call_count]

\* sum of total_mentions over a list of documents
RECURSIVE SumTotalMentions(_)
SumTotalMentions(docs) ==
    IF docs = <<>> THEN 0
    ELSE Head(docs).total_mentions + SumTotalMentions(Tail(docs))

\* entities_collection.count_documents({})
CountDocuments ==
    /\ stats.pc = "idle"
    /\ stats' = [NoStats EXCEPT !.pc = "group", !.total_entities = Len(entities)]
    /\ UNCHANGED <<norm, analysis, now, threshold, calls, entities, pc, idx, retries,
                   countdown, loc, mappings, result, applied>>

\* aggregate([{'$group': {'_id': '$entity_type', 'count': {'$sum': 1}}}])
GroupByType ==
    /\ stats.pc = "group"
    /\ stats' = [stats EXCEPT
          !.pc = "sum",
          !.entities_by_type =
              [t \in { entities[i].entity_type : i \in 1..Len(entities) } |->
                  Cardinality({ i \in 1..Len(entities) : entities[i].entity_type = t })]]
    /\ UNCHANGED <<norm, analysis, now, threshold, calls, entities, pc, idx, retries,
                   countdown, loc, mappings, result, applied>>

\* aggregate([{'$group': {'_id': None, 'total': {'$sum': '$total_mentions'}}}])
SumMentionsOfStore ==
    /\ stats.pc = "sum"
    /\ stats' = [stats EXCEPT !.pc = "find",
                              !.total_mentions = SumTotalMentions(entities)]
    /\ UNCHANGED <<norm, analysis, now, threshold, calls, entities, pc, idx, retries,
                   countdown, loc, mappings, result, applied>>

\* find({}, ..).sort('total_mentions', -1).limit(10) and the returned dict
FindMostMentioned ==
    /\ stats.pc = "find"
    /\ \E ties_first \in BOOLEAN :
          LET most_mentioned == Limit(SortByMentions(entities, ties_first), top_limit)
          IN stats' = [stats EXCEPT
                !.pc = "returned",
                !.most_mentioned_entities =
                    [k \in 1..Len(most_mentioned) |-> StatsEntry(most_mentioned[k])]]
    /\ UNCHANGED <<norm, analysis, now, threshold, calls, entities, pc, idx, retries,
                   countdown, loc, mappings, result, applied>>

----------------------------------------------------------------------------
(* The analyze_call task, which stores the analysis of a call and          *)
(* dispatches resolve_entities                                             *)

\* the names bound in analyze_call, as locals or as globals of the module,
\* when the summary statistics are logged after the analysis is saved
AnalyzeCallNames ==
    {"self", "call_id", "start_time", "mongo_client", "db", "calls_collection",
     "call_doc", "transcript_data", "transcript_text", "ai_service",
     "call_metadata", "analysis_result", "basic_quality_validation",
     "get_quality_monitoring_service", "quality_service", "analysis_data",
     "enhanced_validation", "metadata", "update_data", "result", "total_time",
     "logging", "time", "datetime", "Dict", "Any", "MongoClient", "celery_app",
     "settings", "get_ai_service", "logger", "analyze_call",
     "_update_call_status_to_failed", "resolve_entities"}

\* evaluating a name raises NameError unless it is bound
Bound(name) == name \in AnalyzeCallNames

\* analyze_call is not running and the call document holds the analysis
Analyzed == [pc |-> "done", status |-> "analyzed", retries |-> 0, dispatched |-> 0]

\* analyze_call has been queued for a transcribed call
Transcribed == [pc |-> "start", status |-> "transcribed", retries |-> 0, dispatched |-> 0]

\* the except clause of analyze_call: the call is marked failed when the
\* retries are used up, and self.retry re-queues the task while they are not
AnalyzeExcept(a) ==
    IF a.retries < max_retries
    THEN [a EXCEPT !.retries = @ + 1, !.pc = "start"]
    ELSE [a EXCEPT !.status = "failed", !.pc = "failed"]

\* calls_collection.find_one and the idempotency check on status
AnalyzeLoad(j) ==
    /\ analysis[j].pc = "start"
    /\ analysis' = [analysis EXCEPT ![j].pc =
                       IF analysis[j].status = "analyzed" THEN "done" ELSE "mark"]
    /\ UNCHANGED <<norm, now, stats, threshold, calls, entities, pc, idx, retries, countdown,
                   loc, mappings, result, applied>>

\* update_one setting status 'analyzing'
AnalyzeMark(j) ==
    /\ analysis[j].pc = "mark"
    /\ analysis' = [analysis EXCEPT ![j].status = "analyzing", ![j].pc = "ai"]
    /\ UNCHANGED <<norm, now, stats, threshold, calls, entities, pc, idx, retries, countdown,
                   loc, mappings, result, applied>>

\* ai_service.analyze_call_transcript and the quality validations
AnalyzeAI(j) ==
    /\ analysis[j].pc = "ai"
    /\ analysis' = [analysis EXCEPT ![j].pc = "store"]
    /\ UNCHANGED <<norm, now, stats, threshold, calls, entities, pc, idx, retries, countdown,
                   loc, mappings, result, applied>>

\* update_one storing status 'analyzed' and the analysis, the log of the
\* summary statistics, which reads quality_validation, and after it the
\* dispatch of resolve_entities when entities were extracted
AnalyzeStore(j) ==
    /\ analysis[j].pc = "store"
    /\ LET stored == [analysis[j] EXCEPT !.status = "analyzed"] IN
       IF Bound("quality_validation")
       THEN /\ analysis' = [analysis EXCEPT ![j] =
                   [stored EXCEPT !.pc = "done",
                                  !.dispatched = IF Len(calls[j]) > 0 THEN @ + 1 ELSE @]]
            /\ pc' = [pc EXCEPT ![j] = IF Len(calls[j]) > 0 THEN "start" ELSE @]
       ELSE /\ analysis' = [analysis EXCEPT ![j] = AnalyzeExcept(stored)]
            /\ UNCHANGED pc
    /\ UNCHANGED <<norm, now, stats, threshold, calls, entities, idx, retries, countdown, loc,
                   mappings, result, applied>>

\* a store operation or the AI call of analyze_call raises
AnalyzeFault(j) ==
    /\ analysis[j].pc \in {"start", "mark", "ai", "store"}
    /\ analysis' = [analysis EXCEPT ![j] = AnalyzeExcept(analysis[j])]
    /\ UNCHANGED <<norm, now, stats, threshold, calls, entities, pc, idx, retries, countdown,
                   loc, mappings, result, applied>>

----------------------------------------------------------------------------
(* _normalize_entity_name on its own: called on a raw name, and called     *)
(* again on what it returned (as it is when a later mention spells a name  *)
(* the way the service stored it)                                          *)

\* no call made
NoNorm == [pc |-> "idle", name |-> <<>>, normalized |-> <<>>, renormalized |-> <<>>]

\* the characters raw names are drawn from: a lower-case letter, an
\* upper-case letter, white space and U+0130
NameAlphabet == {"a", "B", Space, DottedCapitalI}

\* the names of test_normalize_entity_name
TestNames ==
    { <<"j", "o", "h", "n", " ", "s", "m", "i", "t", "h">>,
      <<"J", "O", "H", "N", " ", "S", "M", "I", "T", "H">>,
      <<" ", " ", "j", "o", "h", "n", " ", "s", "m", "i", "t", "h", " ", " ">>,
      <<"I", "B", "M">>,
      <<"A", "W", "S">>,
      <<>> }

\* the raw names a call is made on
RawNames ==
    UNION { [1..n -> NameAlphabet] : n \in 0..MaxNameLen } \cup TestNames

\* self._normalize_entity_name(name)
NormalizeName ==
    /\ norm.pc = "raw"
    /\ norm' = [norm EXCEPT !.pc = "once",
                            !.normalized = NormalizeEntityName(norm.name)]
    /\ UNCHANGED <<threshold, calls, entities, pc, idx, retries, countdown, loc,
                   mappings, result, applied, analysis, now, stats>>

\* self._normalize_entity_name on the name the first call returned
NormalizeNormalized ==
    /\ norm.pc = "once"
    /\ norm' = [norm EXCEPT !.pc = "twice",
                            !.renormalized = NormalizeEntityName(norm.normalized)]
    /\ UNCHANGED <<threshold, calls, entities, pc, idx, retries, countdown, loc,
                   mappings, result, applied, analysis, now, stats>>

----------------------------------------------------------------------------
(* Specifications *)

Init ==
    /\ threshold \in Thresholds
    /\ calls \in [Calls -> MentionLists]
    /\ Len(calls["c1"]) + Len(calls["c2"]) <= MaxMentions
    /\ entities = <<>>
    /\ pc = [j \in Calls |-> "start"]
    /\ idx = [j \in Calls |-> 0]
    /\ retries = [j \in Calls |-> 0]
    /\ countdown = [j \in Calls |-> 0]
    /\ loc = [j \in Calls |-> NoLocals]
    /\ mappings = [j \in Calls |-> <<>>]
    /\ result = [j \in Calls |-> NoResult]
    /\ applied = [j \in Calls |-> FALSE]
    /\ analysis = [j \in Calls |-> Analyzed]
    /\ now = 0
    /\ stats = NoStats
    /\ norm = NoNorm

\* one store operation of the job of call j
JobStep(j) ==
    \/ LoadCall(j)
    \/ FindExact(j)
    \/ FindCandidates(j)
    \/ AddOccurrence(j)
    \/ AddAlias(j)
    \/ CreateEntity(j)
    \/ SaveResult(j)

\* the resolution jobs of all calls, running concurrently on the worker pool
Next == \E j \in Calls : JobStep(j)

Spec == Init /\ [][Next]_vars

\* any job may take its step, whatever the other jobs are doing
Overlapping(j) == TRUE

\* no other job is between its first and its last store operation
Alone(j) == \A k \in Calls \ {j} : pc[k] \in {"start", "done", "failed"}

\* the jobs run one at a time (a single worker)
NextSeq == \E j \in Calls : Alone(j) /\ JobStep(j)

SeqSpec == Init /\ [][NextSeq]_vars

\* the job of call c1 alone, on a store whose operations may raise
InitRetry == Init /\ calls["c2"] = <<>>

NextRetry == JobStep("c1") \/ Fault("c1")

RetrySpec == InitRetry /\ [][NextRetry]_vars

\* the worker keeps running the task, and Celery redelivers a retried task
LiveRetrySpec == InitRetry /\ [][NextRetry]_vars /\ WF_vars(NextRetry)

\* the job of call c1 alone, on lists that include the worked example
InitExample ==
    /\ threshold \in Thresholds
    /\ calls \in [Calls -> ExampleLists]
    /\ calls["c2"] = <<>>
    /\ entities = <<>>
    /\ pc = [j \in Calls |-> "start"]
    /\ idx = [j \in Calls |-> 0]
    /\ retries = [j \in Calls |-> 0]
    /\ countdown = [j \in Calls |-> 0]
    /\ loc = [j \in Calls |-> NoLocals]
    /\ mappings = [j \in Calls |-> <<>>]
    /\ result = [j \in Calls |-> NoResult]
    /\ applied = [j \in Calls |-> FALSE]
    /\ analysis = [j \in Calls |-> Analyzed]
    /\ now = 0
    /\ stats = NoStats
    /\ norm = NoNorm

NextExample == JobStep("c1")

ExampleSpec == InitExample /\ [][NextExample]_vars

\* the concurrent resolution jobs, and entities enriched in between
NextEnrich == Next \/ Enrich

EnrichSpec == Init /\ [][NextEnrich]_vars

\* the analyze_call tasks of the transcribed calls; no resolution job is
\* queued before one is dispatched
InitAnalyze ==
    /\ threshold = default_threshold
    /\ calls \in [Calls -> MentionLists]
    /\ Len(calls["c1"]) + Len(calls["c2"]) <= MaxMentions
    /\ entities = <<>>
    /\ pc = [j \in Calls |-> "none"]
    /\ idx = [j \in Calls |-> 0]
    /\ retries = [j \in Calls |-> 0]
    /\ countdown = [j \in Calls |-> 0]
    /\ loc = [j \in Calls |-> NoLocals]
    /\ mappings = [j \in Calls |-> <<>>]
    /\ result = [j \in Calls |-> NoResult]
    /\ applied = [j \in Calls |-> FALSE]
    /\ analysis = [j \in Calls |-> Transcribed]
    /\ now = 0
    /\ stats = NoStats
    /\ norm = NoNorm

AnalyzeStep(j) ==
    \/ AnalyzeLoad(j)
    \/ AnalyzeMark(j)
    \/ AnalyzeAI(j)
    \/ AnalyzeStore(j)
    \/ AnalyzeFault(j)

NextAnalyze == \E j \in Calls : AnalyzeStep(j)

AnalyzeSpec == InitAnalyze /\ [][NextAnalyze]_vars

\* mentions values of the entities of the store the statistics read
StatsMentions == {1, 2}

\* the extracted entities of one call that names n different one-letter
\* acronyms ("A", "B", ..), which no threshold above 0 matches to each other
AcronymMentions(ms) ==
    [k \in 1..Len(ms) |-> Mention(<<UpperLetters[k]>>, "person", ms[k])]

\* the store after that call was resolved on an empty store: one entity per
\* mention, in the order of the mentions
AcronymStore(ms) ==
    [k \in 1..Len(ms) |->
        NewEntity(k, <<UpperLetters[k]>>, "person", "c1", <<UpperLetters[k]>>,
                  ms[k], k - 1)]

\* get_entity_stats called when call c1 has been resolved
InitStats ==
    \E n \in 0..MaxStored : \E ms \in [1..n -> StatsMentions] :
        /\ threshold = default_threshold
        /\ calls = [j \in Calls |-> IF j = "c1" THEN AcronymMentions(ms) ELSE <<>>]
        /\ entities = AcronymStore(ms)
        /\ pc = [j \in Calls |-> "done"]
        /\ idx = [j \in Calls |-> IF j = "c1" THEN n + 1 ELSE 0]
        /\ retries = [j \in Calls |-> 0]
        /\ countdown = [j \in Calls |-> 0]
        /\ loc = [j \in Calls |-> IF j = "c1"
                                  THEN [NoLocals EXCEPT !.new_entities_created = n,
                                                        !.since = n]
                                  ELSE NoLocals]
        /\ mappings = [j \in Calls |->
              IF j = "c1"
              THEN [k \in 1..n |->
                       [raw_name |-> <<UpperLetters[k]>>, canonical_id |-> k,
                        canonical_name |-> <<UpperLetters[k]>>,
                        entity_type |-> "person", similarity_score |-> full_score,
                        match_method |-> "new"]]
              ELSE <<>>]
        /\ result = [j \in Calls |->
              [status |-> "success",
               raw_entities_count |-> IF j = "c1" THEN n ELSE 0,
               resolved_entities_count |-> 0,
               new_entities_created |-> IF j = "c1" THEN n ELSE 0,
               entity_mappings |-> mappings[j]]]
        /\ applied = [j \in Calls |-> j = "c1" /\ n > 0]
        /\ analysis = [j \in Calls |-> Analyzed]
        /\ now = n
        /\ stats = NoStats
        /\ norm = NoNorm

NextStats ==
    \/ CountDocuments
    \/ GroupByType
    \/ SumMentionsOfStore
    \/ FindMostMentioned

StatsSpec == InitStats /\ [][NextStats]_vars

\* the jobs of two calls whose names are close to one another in a chain
InitAlias ==
    /\ threshold \in Thresholds
    /\ calls \in [Calls -> AliasLists]
    /\ Len(calls["c1"]) + Len(calls["c2"]) <= MaxMentions
    /\ entities = <<>>
    /\ pc = [j \in Calls |-> "start"]
    /\ idx = [j \in Calls |-> 0]
    /\ retries = [j \in Calls |-> 0]
    /\ countdown = [j \in Calls |-> 0]
    /\ loc = [j \in Calls |-> NoLocals]
    /\ mappings = [j \in Calls |-> <<>>]
    /\ result = [j \in Calls |-> NoResult]
    /\ applied = [j \in Calls |-> FALSE]
    /\ analysis = [j \in Calls |-> Analyzed]
    /\ now = 0
    /\ stats = NoStats
    /\ norm = NoNorm

AliasSpec == InitAlias /\ [][Next]_vars

\* _normalize_entity_name called on any raw name, with no job running
InitNormalize ==
    /\ threshold = default_threshold
    /\ calls = [j \in Calls |-> <<>>]
    /\ entities = <<>>
    /\ pc = [j \in Calls |-> "start"]
    /\ idx = [j \in Calls |-> 0]
    /\ retries = [j \in Calls |-> 0]
    /\ countdown = [j \in Calls |-> 0]
    /\ loc = [j \in Calls |-> NoLocals]
    /\ mappings = [j \in Calls |-> <<>>]
    /\ result = [j \in Calls |-> NoResult]
    /\ applied = [j \in Calls |-> FALSE]
    /\ analysis = [j \in Calls |-> Analyzed]
    /\ now = 0
    /\ stats = NoStats
    /\ \E name \in RawNames : norm = [NoNorm EXCEPT !.pc = "raw", !.name = name]

NextNormalize == NormalizeName \/ NormalizeNormalized

NormalizeSpec == InitNormalize /\ [][NextNormalize]_vars

----------------------------------------------------------------------------
(* Properties *)

\* sum of the mentions fields of a list of occurrences
RECURSIVE SumMentions(_)
SumMentions(occs) ==
    IF occs = <<>> THEN 0 ELSE Head(occs).mentions + SumMentions(Tail(occs))

\* the stored documents with an entity_id
WithId(store, id) == { i \in 1..Len(store) : store[i].entity_id = id }

\* the stored documents with an exact-match key
WithKey(store, name, type) ==
    { i \in 1..Len(store) :
        store[i].canonical_name = name /\ store[i].entity_type = type }

CallIds(e) == { e.occurrences[o].call_id : o \in 1..Len(e.occurrences) }

RowKey(row) == <<NormalizeEntityName(row.raw_name), row.entity_type>>

\* the step is the pending store operation of job j succeeding
Succeeds(j) == pc'[j] # pc[j] /\ retries'[j] = retries[j] /\ pc'[j] # "failed"

(* C1: when two jobs for different calls have both completed and each    *)
(* resolved a mention of the same (normalized name, entity_type), one of *)
(* them having found the key never seen before (match_method new) and    *)
(* the other resolving it as new or exact, exactly one CanonicalEntity   *)
(* with that (canonical_name, entity_type) exists and its occurrences    *)
(* include one from each of the two calls.                               *)
C1_ConcurrentCreationConverges ==
    \A j \in Calls : \A k \in Calls \ {j} :
        (pc[j] = "done" /\ pc[k] = "done") =>
            \A a \in 1..Len(result[j].entity_mappings) :
            \A b \in 1..Len(result[k].entity_mappings) :
                LET ra == result[j].entity_mappings[a]
                    rb == result[k].entity_mappings[b]
                    same == WithKey(entities, RowKey(ra)[1], RowKey(ra)[2])
                IN (/\ RowKey(ra) = RowKey(rb)
                    /\ ra.match_method = "new"
                    /\ rb.match_method \in {"new", "exact"})
                   => /\ Cardinality(same) = 1
                      /\ \A i \in same : {j, k} \subseteq CallIds(entities[i])

(* C2: each _add_entity_occurrence on an existing entity is durably      *)
(* reflected whatever other jobs did to the entity since it was read:    *)
(* the step appends exactly one occurrence to the stored list (nothing   *)
(* stored before it is lost) and adds the appended mention count to the  *)
(* stored total_mentions.                                                *)
C2_AppendIsNotLost ==
    [][\A j \in Calls :
        (pc[j] = "append" /\ Succeeds(j)) =>
            /\ Len(entities') = Len(entities)
            /\ \A i \in WithId(entities, loc[j].matched.entity_id) :
                 /\ Len(entities'[i].occurrences) = Len(entities[i].occurrences) + 1
                 /\ SubSeq(entities'[i].occurrences, 1, Len(entities[i].occurrences))
                        = entities[i].occurrences
                 /\ entities'[i].occurrences[Len(entities'[i].occurrences)].call_id = j
                 /\ entities'[i].total_mentions
                        = entities[i].total_mentions + calls[j][idx[j]].mentions
            /\ WithId(entities, loc[j].matched.entity_id) # {}]_vars

\* job j has appended to an entity that the other job appended to after j
\* had read it: the stored list holds both occurrences beyond j's snapshot
C2_Witness ==
    \E j \in Calls : \E k \in Calls \ {j} :
        /\ pc[j] = "add_alias"
        /\ \E i \in WithId(entities, loc[j].matched.entity_id) :
             LET n == Len(loc[j].matched.occurrences)
                 occs == entities[i].occurrences
             IN /\ Len(occs) >= n + 2
                /\ \E o \in (n + 1)..Len(occs) : occs[o].call_id = j
                /\ \E o \in (n + 1)..Len(occs) : occs[o].call_id = k
                /\ entities[i].total_mentions = SumMentions(occs)

(* C3: once the resolution of a call has been applied (resolve_entities_ *)
(* for_call has returned for it), no further step of that call's job, a  *)
(* task retry included, changes any canonical entity's occurrences,      *)
(* total_mentions or call_count, or adds an entity.                      *)
C3_RerunIsIdempotent ==
    [][\A j \in Calls :
        (applied[j] /\ <<pc[j], idx[j], retries[j]>> # <<pc'[j], idx'[j], retries'[j]>>)
        => /\ Len(entities') = Len(entities)
           /\ \A i \in 1..Len(entities) :
                /\ entities'[i].occurrences = entities[i].occurrences
                /\ entities'[i].total_mentions = entities[i].total_mentions
                /\ entities'[i].call_count = entities[i].call_count]_vars

(* C4: in every reachable state each canonical entity's total_mentions   *)
(* equals the sum of the mentions fields of its occurrences.             *)
C4_TotalMentionsIsSum ==
    \A i \in 1..Len(entities) :
        entities[i].total_mentions = SumMentions(entities[i].occurrences)

\* job j has appended, on a snapshot that was stale by then, an occurrence
\* to an entity whose stored total had moved since the snapshot
C4_Witness ==
    \E j \in Calls :
        /\ pc[j] = "add_alias"
        /\ \E i \in WithId(entities, loc[j].matched.entity_id) :
             /\ entities[i].total_mentions
                    > loc[j].matched.total_mentions + calls[j][idx[j]].mentions
             /\ \E o \in 1..Len(entities[i].occurrences) :
                    entities[i].occurrences[o].mentions > 1

(* C5: in every reachable state each canonical entity's call_count       *)
(* equals the number of distinct call_ids among its occurrences.         *)
C5_CallCountIsDistinctCalls ==
    \A i \in 1..Len(entities) :
        entities[i].call_count = Cardinality(CallIds(entities[i]))

(* C6 as stated: whenever a job has resolved the same (name, type) twice *)
(* in a row with no other job running, the second resolution returned    *)
(* the first one's entity_id with match_method exact, whatever the       *)
(* first one's match method was.                                         *)
C6_SecondResolutionExact ==
    \A j \in Calls : \A a \in 1..(Len(mappings[j]) - 1) :
        LET first == mappings[j][a]
            second == mappings[j][a + 1]
        IN (first.raw_name = second.raw_name /\ first.entity_type = second.entity_type)
           => /\ second.canonical_id = first.canonical_id
              /\ second.match_method = "exact"

(* C6 amended: the second resolution returns the first one's entity_id;  *)
(* it reports match_method exact (score 100) when the first was new or   *)
(* exact, and match_method fuzzy when the first was fuzzy.               *)
C6_SecondResolutionStable ==
    \A j \in Calls : \A a \in 1..(Len(mappings[j]) - 1) :
        LET first == mappings[j][a]
            second == mappings[j][a + 1]
        IN (first.raw_name = second.raw_name /\ first.entity_type = second.entity_type)
           => /\ second.canonical_id = first.canonical_id
              /\ first.match_method \in {"new", "exact"}
                    => /\ second.match_method = "exact"
                       /\ second.similarity_score = full_score
              /\ first.match_method = "fuzzy" => second.match_method = "fuzzy"

\* one job has resolved a pair twice in a row, with no other job running,
\* and the first resolution was a fuzzy match: so was the second, to the
\* same entity
C6_Witness ==
    \E j \in Calls : \E a \in 1..(Len(mappings[j]) - 1) :
        /\ mappings[j][a].raw_name = mappings[j][a + 1].raw_name
        /\ mappings[j][a].entity_type = mappings[j][a + 1].entity_type
        /\ mappings[j][a].match_method = "fuzzy"
        /\ mappings[j][a + 1].match_method = "fuzzy"
        /\ mappings[j][a + 1].canonical_id = mappings[j][a].canonical_id
        /\ \A k \in Calls : pc[k] = "done"

(* C7: when the resolution of a call is reported as failed, no mutation  *)
(* made for that call remains in the canonical-entity store: no entity   *)
(* holds an occurrence of the call.                                      *)
C7_FailedCallLeavesNoMutation ==
    \A j \in Calls :
        pc[j] = "failed" => \A i \in 1..Len(entities) : j \notin CallIds(entities[i])

(* C8: a resolve_entities job is retried at most max_retries = 3 times,  *)
(* the retries delayed by 60, 120 and 240 seconds (60 * 2^retries); when *)
(* the store fails once more it ends with status 'error'; and every job  *)
(* eventually ends, done or failed.                                      *)
C8_JobTerminates ==
    /\ [](\A j \in Calls :
            /\ retries[j] \in 0..3
            /\ countdown[j] = (CASE retries[j] = 0 -> 0
                                 [] retries[j] = 1 -> 60
                                 [] retries[j] = 2 -> 120
                                 [] OTHER -> 240)
            /\ pc[j] = "failed" => (retries[j] = 3 /\ result[j].status = "error"))
    /\ <>(pc["c1"] \in {"done", "failed"})

\* the job has failed after its third retry
C8_Witness ==
    /\ pc["c1"] = "failed"
    /\ retries["c1"] = 3
    /\ countdown["c1"] = 240
    /\ result["c1"].status = "error"

\* the comparison strings of the entities of one type: canonical names and
\* normalized aliases
CandidateStrings(store, type) ==
    UNION { { store[i].canonical_name } \cup
            { NormalizeEntityName(store[i].aliases[a]) :
                  a \in 1..Len(store[i].aliases) } :
            i \in { k \in 1..Len(store) : store[k].entity_type = type } }

(* C9: when the exact lookup found nothing, the mention is matched       *)
(* fuzzily to an entity of the store, of its type, if and only if some   *)
(* candidate string of that type scores at least similarity_threshold;   *)
(* the score reported is the highest one; otherwise a new entity is      *)
(* created. The mapping row then says fuzzy with the matched entity's    *)
(* id, or new with the id of the entity just inserted.                   *)
C9_FuzzyIffThresholdReached ==
    [][\A j \in Calls :
        LET key == NormalizeEntityName(EntityName(j, idx[j]))
            type == calls[j][idx[j]].type
            scores == { TokenSortRatio(key, c) : c \in CandidateStrings(entities, type) }
        IN /\ (pc[j] = "find_candidates" /\ Succeeds(j)) =>
                /\ pc'[j] \in {"append", "create"}
                /\ pc'[j] = "append" <=> \E sc \in scores : sc >= threshold
                /\ pc'[j] = "append" =>
                      /\ loc'[j].method = "fuzzy"
                      /\ loc'[j].score \in scores
                      /\ \A sc \in scores : sc <= loc'[j].score
                      /\ \E i \in WithId(entities, loc'[j].matched.entity_id) :
                            entities[i].entity_type = type
           /\ (pc[j] = "create" /\ Succeeds(j)) =>
                /\ Len(entities') = Len(entities) + 1
                /\ mappings'[j][Len(mappings'[j])].match_method = "new"
                /\ mappings'[j][Len(mappings'[j])].canonical_id
                       = entities'[Len(entities')].entity_id
           /\ (pc[j] \in {"append", "add_alias"} /\ loc[j].method = "fuzzy"
                 /\ Succeeds(j) /\ pc'[j] # "add_alias") =>
                /\ Len(entities') = Len(entities)
                /\ mappings'[j][Len(mappings'[j])].match_method = "fuzzy"
                /\ mappings'[j][Len(mappings'[j])].canonical_id
                       = loc[j].matched.entity_id]_vars

\* a mention has been matched fuzzily with a score equal to the threshold
C9_Witness ==
    \E j \in Calls :
        /\ pc[j] = "append"
        /\ loc[j].method = "fuzzy"
        /\ loc[j].score = threshold
        /\ threshold > 0

(* C10: a mention of type T is never resolved to an entity of another    *)
(* type: every occurrence stored on an entity carries the entity's type, *)
(* every mapping row's canonical_id is that of an entity of the row's    *)
(* type, and rows of different types never share a canonical_id.         *)
C10_NoCrossTypeMatch ==
    /\ \A i \in 1..Len(entities) : \A o \in 1..Len(entities[i].occurrences) :
          entities[i].occurrences[o].entity_type = entities[i].entity_type
    /\ \A j \in Calls : \A a \in 1..Len(mappings[j]) :
          /\ \A i \in WithId(entities, mappings[j][a].canonical_id) :
                entities[i].entity_type = mappings[j][a].entity_type
          /\ \A k \in Calls : \A b \in 1..Len(mappings[k]) :
                mappings[j][a].entity_type # mappings[k][b].entity_type
                    => mappings[j][a].canonical_id # mappings[k][b].canonical_id

\* a person and a company of the same name have both been resolved, under
\* a threshold every score reaches, and are two entities
C10_Witness ==
    /\ threshold = 0
    /\ \E i \in 1..Len(entities) : \E k \in 1..Len(entities) :
          /\ i < k
          /\ entities[i].canonical_name = entities[k].canonical_name
          /\ entities[i].entity_type = "person"
          /\ entities[k].entity_type = "company"
    /\ \A j \in Calls : pc[j] = "done"

\* the highest score of a name against the comparison strings of one entity
EntityScore(key, e) ==
    LET scores == { Similarity[key, EntityChoices(e)[c]] :
                        c \in 1..Len(EntityChoices(e)) }
    IN CHOOSE sc \in scores : \A other \in scores : other <= sc

\* e comes before f in the tie-break order: greater total_mentions, then
\* smaller canonical_name, then smaller entity_id
Preferred(e, f) ==
    \/ e.total_mentions > f.total_mentions
    \/ /\ e.total_mentions = f.total_mentions
       /\ \/ StrLess(e.canonical_name, f.canonical_name)
          \/ /\ e.canonical_name = f.canonical_name
             /\ e.entity_id <= f.entity_id

(* C11: when a mention is matched fuzzily and several entities of its    *)
(* type reach the highest score, the entity matched is the one with the  *)
(* greater total_mentions, then the smaller canonical_name, then the     *)
(* smaller entity_id.                                                    *)
C11_TieBrokenByMentions ==
    [][\A j \in Calls :
        (pc[j] = "find_candidates" /\ Succeeds(j) /\ pc'[j] = "append") =>
            LET key == NormalizedName(j, idx[j])
                cands == FindByType(entities, calls[j][idx[j]].type)
                tied == { i \in 1..Len(cands) :
                            EntityScore(key, cands[i]) = loc'[j].score }
            IN \A i \in tied : Preferred(loc'[j].matched, cands[i])]_vars

(* C12: from an empty store with threshold 85, resolving call c1 with    *)
(* [("John Smith", person, 3), ("john smith", person, 1), ("Acme Corp",  *)
(* company, 2)] returns raw_entities_count 3, new_entities_created 2,    *)
(* resolved_entities_count 1, the second mention matched exact, and      *)
(* leaves the person entity with total_mentions 4 and call_count 1.      *)
C12_WorkedExample ==
    (/\ threshold = default_threshold
     /\ calls["c1"] = ExampleMentions
     /\ pc["c1"] = "done")
    => /\ result["c1"].raw_entities_count = 3
       /\ result["c1"].new_entities_created = 2
       /\ result["c1"].resolved_entities_count = 1
       /\ result["c1"].entity_mappings[2].match_method = "exact"
       /\ \E i \in 1..Len(entities) :
            /\ entities[i].entity_type = "person"
            /\ entities[i].total_mentions = 4
            /\ entities[i].call_count = 1

\* the rows of a list of mappings with one of the given match methods
RowsWith(rows, methods) ==
    { a \in 1..Len(rows) : rows[a].match_method \in methods }

\* the mentions of call j whose name is not blank, in the list's order
NonBlank(j) == SelectSeq(calls[j], LAMBDA m : Strip(m.name) # <<>>)

(* C13: the result returned for a call has raw_entities_count equal to   *)
(* the length of the input list, blank names included,                   *)
(* resolved_entities_count equal to the number of rows matched exact or  *)
(* fuzzy, new_entities_created equal to the number of rows matched new,  *)
(* and their sum equal to the number of rows and to the number of        *)
(* non-blank mentions.                                                   *)
C13_ResultCounts ==
    \A j \in Calls :
        pc[j] = "done" =>
            LET r == result[j] IN
            /\ r.raw_entities_count = Len(calls[j])
            /\ r.resolved_entities_count
                  = Cardinality(RowsWith(r.entity_mappings, {"exact", "fuzzy"}))
            /\ r.new_entities_created
                  = Cardinality(RowsWith(r.entity_mappings, {"new"}))
            /\ r.resolved_entities_count + r.new_entities_created
                  = Len(r.entity_mappings)
            /\ Len(r.entity_mappings) = Len(NonBlank(j))

\* a call with a blank mention, a new entity and a matched mention is done
C13_Witness ==
    \E j \in Calls :
        /\ pc[j] = "done"
        /\ Len(NonBlank(j)) < Len(calls[j])
        /\ result[j].new_entities_created >= 1
        /\ result[j].resolved_entities_count >= 1

(* C14: a mention whose name is empty or only whitespace is skipped: no  *)
(* store operation is ever made for it, it leaves no mapping row and no  *)
(* occurrence, and the call still ends with status success, its rows     *)
(* being those of the non-blank mentions, in order.                      *)
C14_BlankMentionSkipped ==
    \A j \in Calls :
        /\ pc[j] \in {"find_exact", "find_candidates", "append", "add_alias", "create"}
              => EntityName(j, idx[j]) # <<>>
        /\ \A a \in 1..Len(mappings[j]) : mappings[j][a].raw_name # <<>>
        /\ \A i \in 1..Len(entities) : \A o \in 1..Len(entities[i].occurrences) :
              entities[i].occurrences[o].raw_name # <<>>
        /\ pc[j] = "done" =>
              /\ result[j].status = "success"
              /\ Len(result[j].entity_mappings) = Len(NonBlank(j))
              /\ \A a \in 1..Len(NonBlank(j)) :
                    /\ result[j].entity_mappings[a].raw_name = Strip(NonBlank(j)[a].name)
                    /\ result[j].entity_mappings[a].entity_type = NonBlank(j)[a].type

\* a call whose first mention is blank and whose second is not is done,
\* with the second mention resolved
C14_Witness ==
    \E j \in Calls :
        /\ pc[j] = "done"
        /\ Len(calls[j]) >= 2
        /\ Strip(calls[j][1].name) = <<>>
        /\ Strip(calls[j][2].name) # <<>>
        /\ result[j].status = "success"
        /\ Len(result[j].entity_mappings) >= 1

(* C15: for every call whose analysis stage has completed (the analysis  *)
(* is stored with status 'analyzed' and analyze_call has ended) with at  *)
(* least one extracted entity, resolve_entities has been dispatched      *)
(* exactly once; it is never dispatched more than once, and never before *)
(* the call is stored as analyzed.                                       *)
C15_DispatchedOnce ==
    \A j \in Calls :
        /\ analysis[j].dispatched <= 1
        /\ analysis[j].dispatched = 1 => analysis[j].status = "analyzed"
        /\ (analysis[j].pc = "done" /\ analysis[j].status = "analyzed"
              /\ Len(calls[j]) > 0)
           => analysis[j].dispatched = 1

(* C16 as stated: when a mention matched no entity, exactly one entity  *)
(* is inserted, with a fresh entity_id, canonical_name =                 *)
(* Normalize(name), aliases = [name] if name differs from                *)
(* Normalize(name) and [] if not, one occurrence carrying the call_id    *)
(* and the name, total_mentions = mentions, call_count = 1 and           *)
(* first_seen = last_seen, the mapping row saying new with score 100;    *)
(* name being the name of the mention as extracted.                      *)
C16_NewEntityFromRawName ==
    [][\A j \in Calls :
        (pc[j] = "create" /\ Succeeds(j)) =>
            LET m == calls[j][idx[j]]
                key == NormalizeEntityName(m.name)
                e == entities'[Len(entities')]
                row == mappings'[j][Len(mappings'[j])]
            IN /\ Len(entities') = Len(entities) + 1
               /\ WithId(entities, e.entity_id) = {}
               /\ e.canonical_name = key
               /\ e.aliases = IF m.name # key THEN <<m.name>> ELSE <<>>
               /\ e.occurrences = <<Occurrence(j, m.name, m.type, m.mentions)>>
               /\ e.total_mentions = m.mentions
               /\ e.call_count = 1
               /\ e.first_seen = e.last_seen
               /\ row.match_method = "new"
               /\ row.similarity_score = full_score]_vars

(* C16 amended: the same, with name the name of the mention with its     *)
(* surrounding whitespace trimmed: that is the string compared with      *)
(* Normalize(name), stored as the alias and carried by the occurrence.   *)
(* Nothing else in the store changes and the row carries the new         *)
(* entity's id and canonical name.                                       *)
C16_NewEntityFields ==
    [][\A j \in Calls :
        (pc[j] = "create" /\ Succeeds(j)) =>
            LET m == calls[j][idx[j]]
                name == Strip(m.name)
                key == NormalizeEntityName(m.name)
                e == entities'[Len(entities')]
                row == mappings'[j][Len(mappings'[j])]
            IN /\ Len(entities') = Len(entities) + 1
               /\ SubSeq(entities', 1, Len(entities)) = entities
               /\ WithId(entities, e.entity_id) = {}
               /\ e.canonical_name = key
               /\ e.entity_type = m.type
               /\ e.aliases = IF name # key THEN <<name>> ELSE <<>>
               /\ e.occurrences = <<Occurrence(j, name, m.type, m.mentions)>>
               /\ e.total_mentions = m.mentions
               /\ e.call_count = 1
               /\ e.first_seen = e.last_seen
               /\ Len(mappings'[j]) = Len(mappings[j]) + 1
               /\ row.match_method = "new"
               /\ row.similarity_score = full_score
               /\ row.canonical_id = e.entity_id
               /\ row.canonical_name = key]_vars

\* two entities have just been created: one from a name that differs from
\* its normalized form by its trailing whitespace only (no alias, and the
\* occurrence carries the trimmed name) and one from a lower-case name (one
\* alias)
C16_Witness ==
    /\ Len(entities) = 2
    /\ \E i \in 1..2 : \E k \in 1..2 :
          /\ entities[i].aliases = <<>>
          /\ Len(entities[i].occurrences) = 1
          /\ \E j \in Calls : \E n \in 1..Len(calls[j]) :
                /\ calls[j][n].name # Strip(calls[j][n].name)
                /\ Strip(calls[j][n].name) = entities[i].occurrences[1].raw_name
                /\ entities[i].occurrences[1].call_id = j
          /\ entities[k].aliases # <<>>
          /\ Len(entities[k].occurrences) = 1
          /\ entities[k].occurrences[1].raw_name # entities[k].canonical_name
    /\ \E j \in Calls : Len(mappings[j]) >= 1 /\
          mappings[j][Len(mappings[j])].match_method = "new"

(* C17: no step deletes a canonical entity or changes its entity_id,     *)
(* canonical_name, entity_type or first_seen, and the occurrences of an  *)
(* entity only grow at the end: what was stored stays, in its order.     *)
C17_EntitiesAppendOnly ==
    [][/\ Len(entities') >= Len(entities)
       /\ \A i \in 1..Len(entities) :
            /\ entities'[i].entity_id = entities[i].entity_id
            /\ entities'[i].canonical_name = entities[i].canonical_name
            /\ entities'[i].entity_type = entities[i].entity_type
            /\ entities'[i].first_seen = entities[i].first_seen
            /\ Len(entities'[i].occurrences) >= Len(entities[i].occurrences)
            /\ SubSeq(entities'[i].occurrences, 1, Len(entities[i].occurrences))
                  = entities[i].occurrences]_vars

\* an entity has received occurrences from both calls after its creation,
\* and an alias since
C17_Witness ==
    \E i \in 1..Len(entities) :
        /\ Len(entities[i].occurrences) >= 3
        /\ CallIds(entities[i]) = Calls
        /\ Len(entities[i].aliases) >= 2
        /\ entities[i].first_seen < entities[i].last_seen

(* C18: no step of a resolution job (exact match, fuzzy match, append of *)
(* an occurrence, addition of an alias, creation of another entity)      *)
(* changes the email, phone, company or title of an entity already in    *)
(* the store: what enrichment wrote stays.                               *)
C18_EnrichmentUntouched ==
    [][(\E j \in Calls : pc'[j] # pc[j]) =>
          \A i \in 1..Len(entities) :
              /\ entities'[i].email = entities[i].email
              /\ entities'[i].phone = entities[i].phone
              /\ entities'[i].company = entities[i].company
              /\ entities'[i].title = entities[i].title]_vars

\* a job matched an entity fuzzily, reading it with its enrichment, and
\* has appended its occurrence since: the stored entity still has the
\* enrichment
C18_Witness ==
    \E j \in Calls :
        /\ pc[j] = "add_alias"
        /\ loc[j].method = "fuzzy"
        /\ loc[j].matched.email = Enriched.email
        /\ \E i \in WithId(entities, loc[j].matched.entity_id) :
              /\ Len(entities[i].occurrences) > Len(loc[j].matched.occurrences)
              /\ entities[i].occurrences[Len(entities[i].occurrences)].call_id = j
              /\ entities[i].email = Enriched.email
              /\ entities[i].phone = Enriched.phone
              /\ entities[i].company = Enriched.company
              /\ entities[i].title = Enriched.title

(* C19: in every reachable state, whatever the interleaving of the jobs  *)
(* and whenever each of them read the clock before its write, every     *)
(* canonical entity has first_seen <= last_seen.                         *)
C19_FirstSeenBeforeLastSeen ==
    \A i \in 1..Len(entities) : entities[i].first_seen <= entities[i].last_seen

\* both calls have appended to an entity after its creation, and the
\* last_seen stored is older than the last write to the store: it was read
\* from the clock before another job's write
C19_Witness ==
    \E i \in 1..Len(entities) :
        /\ Len(entities[i].occurrences) >= 3
        /\ CallIds(entities[i]) = Calls
        /\ entities[i].last_seen = entities[i].first_seen + 1
        /\ now >= entities[i].last_seen + 2
        /\ Len(entities) = 1

(* C20: in every reachable state, no alias of a canonical entity equals  *)
(* that entity's canonical_name when both are compared in lower case.    *)
C20_AliasDiffersFromCanonicalName ==
    \A i \in 1..Len(entities) : \A a \in 1..Len(entities[i].aliases) :
        LowerStr(entities[i].aliases[a]) # LowerStr(entities[i].canonical_name)

(* C21: in every reachable state, also when several jobs match the same  *)
(* entity fuzzily at the same time with names that differ in letter case *)
(* only, no two aliases of a canonical entity are equal when compared in *)
(* lower case.                                                           *)
C21_NoCaseInsensitiveDuplicateAlias ==
    \A i \in 1..Len(entities) :
        \A a \in 1..Len(entities[i].aliases) : \A b \in 1..Len(entities[i].aliases) :
            a # b => LowerStr(entities[i].aliases[a]) # LowerStr(entities[i].aliases[b])

(* C22: get_entity_stats writes nothing to the store, and the            *)
(* most_mentioned_entities it returns are at most 10 entries (all the    *)
(* entities when the store has fewer), each the entry of a stored entity *)
(* and no entity listed twice, in non-increasing order of mentions, and  *)
(* every entity with more total_mentions than a listed one is listed.    *)
C22_StatsReadOnlyTopTen ==
    /\ [][stats' # stats => entities' = entities]_vars
    /\ [](stats.pc = "returned" =>
          LET top == stats.most_mentioned_entities
              stored == [i \in 1..Len(entities) |-> StatsEntry(entities[i])]
          IN /\ Len(top) <= 10
             /\ Len(top) = (IF Len(entities) < 10 THEN Len(entities) ELSE 10)
             /\ \A a \in 1..(Len(top) - 1) : top[a].mentions >= top[a + 1].mentions
             /\ \A a \in 1..Len(top) :
                   Cardinality({ b \in 1..Len(top) : top[b] = top[a] })
                      <= Cardinality({ i \in 1..Len(stored) : stored[i] = top[a] })
             /\ \A a \in 1..Len(top) :
                   Cardinality({ i \in 1..Len(stored) :
                                   stored[i].mentions > top[a].mentions })
                      = Cardinality({ b \in 1..Len(top) :
                                   top[b].mentions > top[a].mentions }))

\* the statistics of a store of more than 10 entities have been returned,
\* and an entity of the lowest total_mentions listed was left out
C22_Witness ==
    /\ stats.pc = "returned"
    /\ Len(entities) > 10
    /\ Len(stats.most_mentioned_entities) = 10
    /\ stats.most_mentioned_entities[1].mentions
          > stats.most_mentioned_entities[10].mentions
    /\ \E i \in 1..Len(entities) :
          /\ entities[i].total_mentions = stats.most_mentioned_entities[10].mentions
          /\ \A a \in 1..10 :
                stats.most_mentioned_entities[a].name # entities[i].canonical_name

(* C23: normalization is idempotent: for every raw name, normalizing the  *)
(* normalized name gives the normalized name again.                       *)
C23_NormalizeIdempotent ==
    norm.pc = "twice" => norm.renormalized = norm.normalized

\* idempotent on the names outside U+0130, acronyms kept as they are and
\* short title-cased forms included
C23_IdempotentOnAscii ==
    (norm.pc = "twice" /\ \A i \in 1..Len(norm.name) : norm.name[i] # DottedCapitalI)
        => norm.renormalized = norm.normalized

\* a name that title-cases to at most 5 characters, a cased letter after
\* the combining mark that the lower case of U+0130 leaves behind
C23_RenormalizedDiffers ==
    /\ norm.pc = "twice"
    /\ norm.name = <<"a", DottedCapitalI, "B">>
    /\ norm.normalized = <<"A", "i", CombiningDotAbove, "b">>
    /\ norm.renormalized = <<"A", "i", CombiningDotAbove, "B">>

\* t is s without its leading and trailing white space
IsTrimOf(t, s) ==
    \E a, b \in 0..Len(s) :
        /\ a + b <= Len(s)
        /\ \A i \in 1..a : s[i] = Space
        /\ \A i \in (Len(s) - b + 1)..Len(s) : s[i] = Space
        /\ t = SubSeq(s, a + 1, Len(s) - b)
        /\ t # <<>> => (t[1] # Space /\ t[Len(t)] # Space)

\* no letter of s is lower-case, and s has a letter
EntirelyUpper(s) ==
    /\ \A i \in 1..Len(s) : s[i] \notin LowerChars
    /\ \E i \in 1..Len(s) : IsCased(s[i])

(* C24: for every raw name the normalized name is the trimmed name when   *)
(* the trimmed name has at most 5 characters and is entirely upper-case   *)
(* ("IBM" and "AWS" are kept), and the title-cased trimmed name otherwise *)
(* ("john smith", "JOHN SMITH" and "  john smith  " all give "John        *)
(* Smith"); the call returns for every name, and the empty name gives the *)
(* empty name.                                                            *)
C24_NormalizeDefinition ==
    /\ norm.pc = "raw" => ENABLED NormalizeName
    /\ norm.pc \in {"once", "twice"} =>
          /\ \E t \in {SubSeq(norm.name, a, b) : a \in 1..(Len(norm.name) + 1),
                                                  b \in 0..Len(norm.name)} :
                /\ IsTrimOf(t, norm.name)
                /\ norm.normalized =
                      IF Len(t) <= 5 /\ EntirelyUpper(t) THEN t ELSE TitleStr(t)
          /\ norm.name = <<>> => norm.normalized = <<>>
          /\ norm.name \in { <<"I", "B", "M">>, <<"A", "W", "S">> }
                => norm.normalized = norm.name
          /\ norm.name \in
                { <<"j", "o", "h", "n", " ", "s", "m", "i", "t", "h">>,
                  <<"J", "O", "H", "N", " ", "S", "M", "I", "T", "H">>,
                  <<" ", " ", "j", "o", "h", "n", " ", "s", "m", "i", "t", "h", " ", " ">> }
                => norm.normalized = <<"J", "o", "h", "n", " ", "S", "m", "i", "t", "h">>

\* a padded acronym of 5 characters has been normalized
C24_Witness ==
    /\ norm.pc = "once"
    /\ norm.name = <<" ", "B", "B", "B", "B", "B">>
    /\ norm.normalized = <<"B", "B", "B", "B", "B">>

\* an upper-case name of 6 characters has been title-cased
C24_WitnessTitle ==
    /\ norm.pc = "once"
    /\ norm.name = <<"B", "B", "B", "B", "B", "B">>
    /\ norm.normalized = <<"B", "b", "b", "b", "b", "b">>

(* C25: when two jobs have raced to create the same never-before-seen     *)
(* (canonical_name, entity_type), neither has failed, the rows of their   *)
(* two results for that key carry the same canonical_id, and exactly one  *)
(* of the two rows reports match_method new.                              *)
C25_RaceLoserResolvesToWinner ==
    \A j \in Calls : \A k \in Calls \ {j} :
        \A a \in 1..Len(mappings[j]) : \A b \in 1..Len(mappings[k]) :
            (/\ RowKey(mappings[j][a]) = RowKey(mappings[k][b])
             /\ mappings[j][a].match_method = "new")
            => /\ pc[j] # "failed" /\ pc[k] # "failed"
               /\ mappings[k][b].canonical_id = mappings[j][a].canonical_id
               /\ mappings[k][b].match_method # "new"

\* the scores of a name against the canonical names of the entities of a type
CanonicalScores(store, type, key) ==
    { TokenSortRatio(key, store[i].canonical_name) :
          i \in { k \in 1..Len(store) : store[k].entity_type = type } }

\* the scores of a name against the normalized aliases of one entity
AliasScores(e, key) ==
    { TokenSortRatio(key, NormalizeEntityName(e.aliases[a])) : a \in 1..Len(e.aliases) }

(* C26: the fuzzy match of a mention of type T compares it with every     *)
(* entity of type T of the store as it is at the step, under the          *)
(* canonical name and under the normalized form of every alias: the       *)
(* score found is at least every such score, and the entity matched is a  *)
(* document of that state. When no canonical name reaches the threshold   *)
(* and some alias does, the mention is matched with match_method fuzzy to *)
(* an entity that owns an alias of the best score.                        *)
C26_AliasesAreCandidates ==
    [][\A j \in Calls :
        LET key == NormalizeEntityName(EntityName(j, idx[j]))
            type == calls[j][idx[j]].type
            ofType == { i \in 1..Len(entities) : entities[i].entity_type = type }
            aliasScores == UNION { AliasScores(entities[i], key) : i \in ofType }
        IN (pc[j] = "find_candidates" /\ Succeeds(j)) =>
             /\ pc'[j] = "append" =>
                   /\ \E i \in ofType : loc'[j].matched = entities[i]
                   /\ \A sc \in CanonicalScores(entities, type, key) \cup aliasScores :
                         sc <= loc'[j].score
             /\ (/\ \A sc \in CanonicalScores(entities, type, key) : sc < threshold
                 /\ \E sc \in aliasScores : sc >= threshold)
                => /\ pc'[j] = "append"
                   /\ loc'[j].method = "fuzzy"
                   /\ loc'[j].score \in AliasScores(loc'[j].matched, key)
                   /\ \A sc \in aliasScores : sc <= loc'[j].score]_vars

\* "abcd" has been matched to the entity "Ab" through its alias "abc", its
\* score against the canonical name being under the threshold
C26_Witness ==
    \E j \in Calls :
        /\ pc[j] = "append"
        /\ loc[j].method = "fuzzy"
        /\ threshold > 0
        /\ EntityName(j, idx[j]) = <<"a", "b", "c", "d">>
        /\ loc[j].matched.canonical_name = <<"A", "b">>
        /\ TokenSortRatio(NormalizedName(j, idx[j]), loc[j].matched.canonical_name) < threshold
        /\ loc[j].score >= threshold
        /\ \E a \in 1..Len(loc[j].matched.aliases) :
              loc[j].matched.aliases[a] = <<"a", "b", "c">>

(* C27: a fuzzy match records its occurrence and its new alias as one     *)
(* mutation of the target entity: in no state, between the steps of a job *)
(* or after a store failure, does an entity hold an occurrence of a job   *)
(* that matched it fuzzily, counted in total_mentions, while the raw name *)
(* of that occurrence is missing from the entity's aliases.               *)
C27_OccurrenceAndAliasAtomic ==
    \A i \in 1..Len(entities) : \A o \in 1..Len(entities[i].occurrences) :
        LET raw_name == entities[i].occurrences[o].raw_name
        IN NormalizeEntityName(raw_name) # entities[i].canonical_name
           => \E a \in 1..Len(entities[i].aliases) :
                 LowerStr(entities[i].aliases[a]) = LowerStr(raw_name)

\* the job has failed for good and its fuzzy match is left half-applied
C27_LeftBehindByFailure ==
    /\ pc["c1"] = "failed"
    /\ \E i \in 1..Len(entities) : \E o \in 1..Len(entities[i].occurrences) :
          LET raw_name == entities[i].occurrences[o].raw_name
          IN /\ NormalizeEntityName(raw_name) # entities[i].canonical_name
             /\ entities[i].total_mentions = SumMentions(entities[i].occurrences)
             /\ \A a \in 1..Len(entities[i].aliases) :
                   LowerStr(entities[i].aliases[a]) # LowerStr(raw_name)

(* C28: when the resolution jobs run one at a time, every reachable state *)
(* has at most one canonical entity per (canonical_name, entity_type),    *)
(* and an entity is only inserted when the store holds none of its key,   *)
(* the exact lookup of the inserting job having found none.               *)
C28_SequentialKeysUnique ==
    /\ [](\A i \in 1..Len(entities) :
            WithKey(entities, entities[i].canonical_name, entities[i].entity_type) = {i})
    /\ [][Len(entities') > Len(entities) =>
            /\ Len(entities') = Len(entities) + 1
            /\ SubSeq(entities', 1, Len(entities)) = entities
            /\ LET new == entities'[Len(entities')]
               IN /\ WithKey(entities, new.canonical_name, new.entity_type) = {}
                  /\ FindOne(entities, new.canonical_name, new.entity_type) = NoEntity
                  /\ \E j \in Calls :
                        /\ pc[j] = "create"
                        /\ new.canonical_name = NormalizedName(j, idx[j])
                        /\ new.entity_type = calls[j][idx[j]].type]_vars

\* both jobs are done, each has resolved the key of an entity the other
\* one resolved too, and the store holds two entities
C28_Witness ==
    /\ \A j \in Calls : pc[j] = "done"
    /\ Len(entities) >= 2
    /\ \E a \in 1..Len(result["c1"].entity_mappings) :
       \E b \in 1..Len(result["c2"].entity_mappings) :
          /\ RowKey(result["c1"].entity_mappings[a]) = RowKey(result["c2"].entity_mappings[b])
          /\ result["c1"].entity_mappings[a].canonical_id
                = result["c2"].entity_mappings[b].canonical_id
          /\ "new" \in { result["c1"].entity_mappings[a].match_method,
                          result["c2"].entity_mappings[b].match_method }

(* C29: whenever resolve_entities_for_call has returned a result, every   *)
(* row of its entity_mappings names by canonical_id one entity of the     *)
(* store, whose canonical_name and entity_type are the row's and whose    *)
(* occurrences hold one of the result's call with the row's raw_name;     *)
(* whatever the other jobs do meanwhile and afterwards.                   *)
C29_MappingRowsMatchStore ==
    \A j \in Calls :
        LET rows == IF pc[j] = "done" THEN result[j].entity_mappings ELSE mappings[j]
        IN pc[j] \in {"save", "done"} =>
             \A a \in 1..Len(rows) :
                 /\ Cardinality(WithId(entities, rows[a].canonical_id)) = 1
                 /\ \A i \in WithId(entities, rows[a].canonical_id) :
                       /\ entities[i].canonical_name = rows[a].canonical_name
                       /\ entities[i].entity_type = rows[a].entity_type
                       /\ \E o \in 1..Len(entities[i].occurrences) :
                             /\ entities[i].occurrences[o].call_id = j
                             /\ entities[i].occurrences[o].raw_name = rows[a].raw_name

\* both jobs have returned, a race has left two entities of one key in the
\* store, and a row of a fuzzy match names an entity that holds occurrences
\* of both calls
C29_Witness ==
    /\ \A j \in Calls : pc[j] = "done"
    /\ \E i \in 1..Len(entities) :
          Cardinality(WithKey(entities, entities[i].canonical_name, entities[i].entity_type)) > 1
    /\ \E j \in Calls : \E a \in 1..Len(result[j].entity_mappings) :
          /\ result[j].entity_mappings[a].match_method = "fuzzy"
          /\ \E i \in WithId(entities, result[j].entity_mappings[a].canonical_id) :
                CallIds(entities[i]) = Calls

\* the occurrences of call j stored on the entities of the store
RECURSIVE OccurrencesOfCall(_, _)
OccurrencesOfCall(store, j) ==
    IF store = <<>> THEN 0
    ELSE Cardinality({ o \in 1..Len(Head(store).occurrences) :
                          Head(store).occurrences[o].call_id = j })
         + OccurrencesOfCall(Tail(store), j)

(* C30: resolving one non-blank mention adds exactly one occurrence to    *)
(* exactly one canonical entity, the matched one or the one created for   *)
(* it, and leaves every other entity of the store as it was: the step     *)
(* that records the mention appends one occurrence of the call to the one *)
(* entity of the matched id, or inserts one entity with one occurrence;   *)
(* the lookups change nothing and the alias update changes no occurrence  *)
(* and no other entity; so the store holds one occurrence of a call for   *)
(* each of its mentions resolved so far.                                  *)
C30_OneOccurrencePerMention ==
    /\ [](\A j \in Calls :
            OccurrencesOfCall(entities, j)
                = Len(mappings[j]) + (IF pc[j] = "add_alias" THEN 1 ELSE 0))
    /\ [][\A j \in Calls : Succeeds(j) =>
            LET target == WithId(entities, loc[j].matched.entity_id)
                occ == Occurrence(j, EntityName(j, idx[j]), calls[j][idx[j]].type,
                                  calls[j][idx[j]].mentions)
            IN CASE pc[j] = "append" ->
                      /\ Cardinality(target) = 1
                      /\ Len(entities') = Len(entities)
                      /\ \A i \in target :
                            entities'[i].occurrences = Append(entities[i].occurrences, occ)
                      /\ \A i \in (1..Len(entities)) \ target : entities'[i] = entities[i]
                 [] pc[j] = "create" ->
                      /\ Len(entities') = Len(entities) + 1
                      /\ entities'[Len(entities')].occurrences = <<occ>>
                      /\ \A i \in 1..Len(entities) : entities'[i] = entities[i]
                 [] pc[j] = "add_alias" ->
                      /\ Len(entities') = Len(entities)
                      /\ \A i \in 1..Len(entities) :
                            entities'[i].occurrences = entities[i].occurrences
                      /\ \A i \in (1..Len(entities)) \ target : entities'[i] = entities[i]
                 [] OTHER -> entities' = entities]_vars

\* a fuzzy match has just recorded a mention on one of two entities of its
\* type, and the other one holds no occurrence of the call
C30_Witness ==
    \E j \in Calls :
        /\ pc[j] = "add_alias"
        /\ Len(entities) >= 2
        /\ \E i \in 1..Len(entities) : \E k \in 1..Len(entities) :
              /\ i # k
              /\ entities[i].entity_type = entities[k].entity_type
              /\ entities[i].entity_id = loc[j].matched.entity_id
              /\ j \in CallIds(entities[i])
              /\ j \notin CallIds(entities[k])

====
